---- MODULE Spec2Model ----
(***************************************************************************)
(* Multi-scene timing and rendering engine of ai-short-video-creator-be.   *)
(*                                                                         *)
(*   services/Media/media_utils.py   get_audio_duration,                   *)
(*                                   calculate_scene_timing,               *)
(*                                   create_multi_scene_video,             *)
(*                                   create_video_with_transitions,        *)
(*                                   create_video_simple_concat,           *)
(*                                   create_video                          *)
(*   services/subtitle_service.py    validate_and_correct_timing,          *)
(*                                   generate_subtitles_from_audio         *)
(*   api/routes/video.py             create_complete_video                 *)
(*                                                                         *)
(* Time is counted in ticks, TicksPerSec ticks to the second.  Every input *)
(* duration is a multiple of a tenth of a second (120 ticks), so that the  *)
(* division of a duration by an image count up to 6 is exact and the 0.01s *)
(* tolerance (12 ticks) is representable.                                  *)
(***************************************************************************)
EXTENDS Integers, Sequences, FiniteSets, TLC

VARIABLES
    \* ---- calculate_scene_timing / create_multi_scene_video arguments
    image_paths,          \* sequence of image ids
    audio_duration,       \* ticks
    min_scene_duration,   \* ticks
    max_scene_duration,   \* ticks
    transition_duration,  \* ticks, as passed by the caller
    scene_plan,           \* sequence of [image, duration, start_time]
    plan_pc,              \* "call" | "done"
    \* ---- validate_and_correct_timing
    segments,             \* the caller's list, scaled in place by the call
    segments_in,          \* the list as it was before the first call
    actual_audio_duration,\* ticks
    corrected_segments,   \* the list returned by the first call
    corrected_again,      \* the list returned for the first call's output
    cap_pc,               \* "call" | "once" | "twice"
    \* ---- get_audio_duration
    audio_exists,         \* os.path.exists(audio_path)
    ffprobe_exists,       \* os.path.exists(ffprobe_path)
    file_size,            \* bytes; -1 when os.path.getsize fails
    probe_pc,             \* the tier about to run, "returned" or "raised"
    probe_result,         \* the value returned, in ticks (NoValue before)
    probe_tier,           \* the return site, as its diagnostic line names it
    probe_log,            \* the tiers attempted, with each one's outcome
    \* ---- create_multi_scene_video and the renderers it calls
    enable_transitions,   \* BOOLEAN
    existing_images,      \* the image ids whose file exists
    r_pc,                 \* "probe" | "plan" | "crossfade" | "clips" | "mux"
                          \*   | "check" | "single" | "done"
    strategy_log,         \* <<strategy, event>> in the order they happened
    clip_i,               \* create_video_simple_concat: loop index
    scene_videos,         \* create_video_simple_concat: clips to join
    manifest,             \* the clips the concat manifest lists
    temp_files,           \* files now in TEMP_DIR that this call created
    output_by,            \* the strategy that wrote output_path, or "none"
    concat_exit,          \* "no" | "returned" | "raised"
    render_td,            \* transition duration the crossfade ran with
    render_trim,          \* the -t value of the last renderer command
    r_result,             \* "pending" | "None" | "output_path"
    \* ---- concurrent create_complete_video requests sharing TEMP_DIR
    now,                  \* the wall clock, in whole seconds
    req_pc,               \* per request: where it is
    req_bg_ids,           \* per request: request.background_image_ids
    req_bg_j,             \* per request: index of the next background
    req_paths,            \* per request: every temp path it has used
    req_needs,            \* per request: the files it still has to read
    files,                \* the files now in TEMP_DIR
    clobbered,            \* a needed file was overwritten or removed by
                          \*   another request
    \* ---- generate_subtitles_from_audio
    sub_pc,               \* "call" | "returned" | "raised"
    transcription,        \* what transcribe_audio did: "pending" | "ok"
                          \*   | "no_text" | "raised"
    total_duration,       \* the total_duration of the returned dictionary
    srt_file,             \* the .srt in TEMP_DIR: "absent" | "transcribed"
                          \*   | "corrected"
    \* ---- one create_complete_video request
    rt_pc,                \* "audio" | "backgrounds" | "create" | "rendering"
                          \*   | "result" | "subtitles" | "upload" | "done"
    rt_valid,             \* per requested background id: it resolves to a
                          \*   valid image
    rt_j,                 \* index of the next background id
    background_paths,     \* the backgrounds downloaded so far
    subtitle_enabled,     \* request.subtitle_enabled
    rt_files,             \* the temp files of this request now on disk
    rt_calls,             \* renderer, subtitle and upload calls, in order
    rt_raised,            \* status codes of the HTTPExceptions raised, in
                          \*   order
    rt_response           \* the status code sent, 200 for the normal
                          \*   return, 0 before

plan_vars == <<image_paths, audio_duration, min_scene_duration,
               max_scene_duration, transition_duration, scene_plan, plan_pc>>

cap_vars == <<segments, segments_in, actual_audio_duration,
              corrected_segments, corrected_again, cap_pc>>

probe_vars == <<audio_exists, ffprobe_exists, file_size, probe_pc,
                probe_result, probe_tier, probe_log>>

render_vars == <<enable_transitions, existing_images, r_pc, strategy_log,
                 clip_i, scene_videos, manifest, temp_files, output_by,
                 concat_exit, render_td, render_trim, r_result>>

conc_vars == <<now, req_pc, req_bg_ids, req_bg_j, req_paths, req_needs,
               files, clobbered>>

sub_vars == <<sub_pc, transcription, total_duration, srt_file>>

route_vars == <<rt_pc, rt_valid, rt_j, background_paths, subtitle_enabled,
                rt_files, rt_calls, rt_raised, rt_response>>

vars == <<plan_vars, cap_vars, probe_vars, render_vars, conc_vars, sub_vars,
          route_vars>>

\* Each component leaves the other components' state alone.
OnlyPlan ==
    UNCHANGED <<cap_vars, probe_vars, render_vars, conc_vars, sub_vars,
                route_vars>>
OnlyCaption ==
    UNCHANGED <<plan_vars, probe_vars, render_vars, conc_vars, sub_vars,
                route_vars>>
OnlyProbe ==
    UNCHANGED <<plan_vars, cap_vars, render_vars, conc_vars, sub_vars,
                route_vars>>
OnlyRender ==
    UNCHANGED <<cap_vars, probe_vars, conc_vars, sub_vars, route_vars>>
OnlyConc ==
    UNCHANGED <<plan_vars, cap_vars, probe_vars, render_vars, sub_vars,
                route_vars>>
OnlySubtitles ==
    UNCHANGED <<plan_vars, probe_vars, render_vars, conc_vars, route_vars>>
OnlyRoute ==
    UNCHANGED <<cap_vars, conc_vars, sub_vars>>

----------------------------------------------------------------------------
\* Units

TicksPerSec == 12 * 100
Tenth       == TicksPerSec \div 10      \* 0.1 s
Hundredth   == TicksPerSec \div 100     \* 0.01 s
HalfSecond  == TicksPerSec \div 2       \* 0.5 s
OneSecond   == TicksPerSec              \* 1.0 s

Max2(a, b) == IF a >= b THEN a ELSE b
Min2(a, b) == IF a <= b THEN a ELSE b
AbsDiff(a, b) == IF a >= b THEN a - b ELSE b - a

----------------------------------------------------------------------------
\* Bounds of the model

MaxImages      == 4      \* image lists of length 0..MaxImages
MaxAudioTenths == 30     \* audio durations 0.0s .. 3.0s in steps of 0.1s

AudioDurations == {k * Tenth : k \in 0..MaxAudioTenths} \cup {9 * OneSecond}
TransitionDurations == {0, HalfSecond, OneSecond}
MinDurations == {OneSecond, 3 * OneSecond}
MaxDurations == {2 * OneSecond, 8 * OneSecond}

ImageLists == {[i \in 1..n |-> i] : n \in 0..MaxImages}

----------------------------------------------------------------------------
\* calculate_scene_timing (media_utils.py 616-728)

EffectiveTransition_Keep(n, audio, td) == td

\* The transition duration in force after the "not enough time" test
\* (lines 644-652).
EffectiveTransition(n, audio, td) ==
    LET total_transition_time == Max2(0, (n - 1) * td)
        available_scene_time  == audio - total_transition_time
    IN  IF available_scene_time <= 0 \/ available_scene_time < n * OneSecond
        THEN 0 ELSE td

AvailableSceneTime(n, audio, td) ==
    LET total_transition_time == Max2(0, (n - 1) * td)
        available_scene_time  == audio - total_transition_time
    IN  IF available_scene_time <= 0 \/ available_scene_time < n * OneSecond
        THEN audio ELSE available_scene_time

FloorDuration_Off(d) == d

\* The 0.5s floor of lines 690-692.
FloorDuration(d) == IF d < HalfSecond THEN HalfSecond ELSE d

\* The "safety check" of lines 710-712: the loop stops once the running time
\* has reached the audio duration.
LoopBreaks(current_time, audio) == current_time >= audio

AdvanceTime_NoTransition(current_time, effective_duration, td, last) ==
    current_time + effective_duration

\* lines 704-708: the running time moves past the scene and, except after
\* the last image, past the transition.
AdvanceTime(current_time, effective_duration, td, last) ==
    LET t1 == current_time + effective_duration
    IN  IF ~last /\ td > 0 THEN t1 + td ELSE t1

\* The loop of lines 678-712, from image index i (1-based) on.
RECURSIVE SceneLoop(_, _, _, _, _, _, _)
SceneLoop(imgs, audio, scene_duration, td, i, current_time, scenes) ==
    IF i > Len(imgs) THEN scenes
    ELSE LET last == (i = Len(imgs))
             effective_duration ==
                 FloorDuration(IF last THEN audio - current_time
                                       ELSE scene_duration)
             scenes2 == Append(scenes, [image      |-> imgs[i],
                                        duration   |-> effective_duration,
                                        start_time |-> current_time])
             t2 == AdvanceTime(current_time, effective_duration, td, last)
         IN  IF LoopBreaks(t2, audio) THEN scenes2
             ELSE SceneLoop(imgs, audio, scene_duration, td, i + 1, t2, scenes2)

SceneDuration_Clamped(equal_scene_duration, min_duration, max_duration) ==
    Max2(min_duration, Min2(equal_scene_duration, max_duration))

\* lines 662-672: scene_duration is the equal share; the comparisons with
\* min_duration and max_duration only choose a message.
SceneDuration(equal_scene_duration, min_duration, max_duration) ==
    equal_scene_duration

calculate_scene_timing(imgs, audio, min_duration, max_duration, td) ==
    IF Len(imgs) = 0 \/ audio <= 0 THEN << >>
    ELSE LET n   == Len(imgs)
             etd == EffectiveTransition(n, audio, td)
             equal_scene_duration == AvailableSceneTime(n, audio, td) \div n
             scene_duration ==
                 SceneDuration(equal_scene_duration, min_duration, max_duration)
         IN  SceneLoop(imgs, audio, scene_duration, etd, 1, 0, << >>)

RECURSIVE SumDurations(_)
SumDurations(scenes) ==
    IF scenes = << >> THEN 0
    ELSE scenes[1].duration + SumDurations(Tail(scenes))

----------------------------------------------------------------------------
\* Specification SpecPlan: calculate_scene_timing applied to bounded inputs.

NoValue == 0 - 1      \* "no value yet" (Python None)

ProbeIdle ==
    /\ audio_exists = FALSE
    /\ ffprobe_exists = FALSE
    /\ file_size = 0
    /\ probe_pc = "idle"
    /\ probe_result = NoValue
    /\ probe_tier = "none"
    /\ probe_log = << >>

ConcIdle ==
    /\ now = 0
    /\ req_pc = << >>
    /\ req_bg_ids = << >>
    /\ req_bg_j = << >>
    /\ req_paths = << >>
    /\ req_needs = << >>
    /\ files = {}
    /\ clobbered = FALSE

RenderIdle ==
    /\ enable_transitions = FALSE
    /\ existing_images = {}
    /\ r_pc = "idle"
    /\ strategy_log = << >>
    /\ clip_i = 0
    /\ scene_videos = << >>
    /\ manifest = << >>
    /\ temp_files = {}
    /\ output_by = "none"
    /\ concat_exit = "no"
    /\ render_td = NoValue
    /\ render_trim = NoValue
    /\ r_result = "pending"

SubIdle ==
    /\ sub_pc = "idle"
    /\ transcription = "pending"
    /\ total_duration = NoValue
    /\ srt_file = "absent"

RouteIdle ==
    /\ rt_pc = "idle"
    /\ rt_valid = << >>
    /\ rt_j = 0
    /\ background_paths = << >>
    /\ subtitle_enabled = FALSE
    /\ rt_files = {}
    /\ rt_calls = << >>
    /\ rt_raised = << >>
    /\ rt_response = 0

CaptionIdle ==
    /\ segments = << >>
    /\ segments_in = << >>
    /\ actual_audio_duration = 0
    /\ corrected_segments = << >>
    /\ corrected_again = << >>
    /\ cap_pc = "idle"

InitPlan ==
    /\ CaptionIdle
    /\ ProbeIdle
    /\ RenderIdle
    /\ ConcIdle
    /\ SubIdle
    /\ RouteIdle
    /\ image_paths \in ImageLists
    /\ audio_duration \in AudioDurations
    /\ min_scene_duration \in MinDurations
    /\ max_scene_duration \in MaxDurations
    /\ transition_duration \in TransitionDurations
    /\ scene_plan = << >>
    /\ plan_pc = "call"

PlanScenes ==
    /\ plan_pc = "call"
    /\ scene_plan' = calculate_scene_timing(image_paths, audio_duration,
                          min_scene_duration, max_scene_duration,
                          transition_duration)
    /\ plan_pc' = "done"
    /\ UNCHANGED <<image_paths, audio_duration, min_scene_duration,
                   max_scene_duration, transition_duration>>
    /\ OnlyPlan

NextPlan == PlanScenes

SpecPlan == InitPlan /\ [][NextPlan]_vars

----------------------------------------------------------------------------
\* C1: for every non-empty image list of length N and audio_duration > 0,
\* calculate_scene_timing returns exactly N entries, one per input image.
C1_OneEntryPerImage ==
    (plan_pc = "done" /\ Len(image_paths) >= 1 /\ audio_duration > 0)
        => /\ Len(scene_plan) = Len(image_paths)
           /\ \A i \in 1..Len(scene_plan) : scene_plan[i].image = image_paths[i]

\* C2: the schedule ends at audio_duration: the scene durations plus the
\* transitions between them add up to audio_duration within 0.01s, the last
\* entry ends at audio_duration and no entry ends after audio_duration + 0.01s.
C2_EndsAtAudioDuration ==
    (plan_pc = "done" /\ Len(image_paths) >= 1 /\ audio_duration > 0)
        => LET n   == Len(scene_plan)
               etd == EffectiveTransition(Len(image_paths), audio_duration,
                                          transition_duration)
           IN  /\ n >= 1
               /\ AbsDiff(SumDurations(scene_plan) + (n - 1) * etd,
                          audio_duration) <= Hundredth
               /\ AbsDiff(scene_plan[n].start_time + scene_plan[n].duration,
                          audio_duration) <= Hundredth
               /\ \A i \in 1..n :
                      scene_plan[i].start_time + scene_plan[i].duration
                          <= audio_duration + Hundredth

\* C12: every entry of every returned schedule lasts at least 0.5s, also when
\* the image count is large relative to audio_duration.
C12_SceneAtLeastHalfSecond ==
    plan_pc = "done" =>
        \A i \in 1..Len(scene_plan) : scene_plan[i].duration >= HalfSecond

\* C12 witness: a schedule for three or more images whose equal share of the
\* audio is below 0.5s, the first scene raised to 0.5s.
C12_Witness ==
    /\ plan_pc = "done"
    /\ Len(image_paths) >= 3
    /\ audio_duration > 0
    /\ AvailableSceneTime(Len(image_paths), audio_duration,
                          transition_duration) \div Len(image_paths)
           < HalfSecond
    /\ Len(scene_plan) >= 1
    /\ scene_plan[1].duration = HalfSecond

\* The gap the schedule leaves between entry i and entry i + 1.
PlanGap(i) ==
    scene_plan[i + 1].start_time
        - (scene_plan[i].start_time + scene_plan[i].duration)

\* C21: transitions are kept exactly when audio_duration - (N-1) *
\* transition_duration is positive and at least N * 1.0s: then every gap
\* between consecutive scenes is transition_duration and that remainder is
\* shared out; otherwise every gap is 0 and the full audio_duration is
\* shared out.
C21_TransitionsKeptOrDisabled ==
    (plan_pc = "done" /\ Len(scene_plan) >= 1)
        => LET n == Len(image_paths)
               remainder == audio_duration - (n - 1) * transition_duration
               kept == remainder > 0 /\ remainder >= n * OneSecond
               shared == IF kept THEN remainder ELSE audio_duration
           IN  /\ \A i \in 1..(Len(scene_plan) - 1) :
                      PlanGap(i) = IF kept THEN transition_duration ELSE 0
               /\ n >= 2 => scene_plan[1].duration
                                = Max2(HalfSecond, shared \div n)

\* C21 witness: a schedule of two or more scenes for which a non-zero
\* transition was requested and disabled.
C21_Witness ==
    /\ plan_pc = "done"
    /\ Len(scene_plan) >= 2
    /\ transition_duration > 0
    /\ audio_duration - (Len(image_paths) - 1) * transition_duration
           < Len(image_paths) * OneSecond
    /\ PlanGap(1) = 0

C26_OrderedContiguous ==
    plan_pc = "done"
        => LET n == Len(image_paths)
               remainder == audio_duration - (n - 1) * transition_duration
               effective == IF remainder > 0 /\ remainder >= n * OneSecond
                            THEN transition_duration ELSE 0
           IN  /\ Len(scene_plan) <= n
               /\ \A i \in 1..Len(scene_plan) :
                      scene_plan[i].image = image_paths[i]
               /\ Len(scene_plan) >= 1 => scene_plan[1].start_time = 0
               /\ \A i \in 1..(Len(scene_plan) - 1) :
                      /\ scene_plan[i + 1].start_time
                             = scene_plan[i].start_time
                                   + scene_plan[i].duration + effective
                      /\ scene_plan[i + 1].start_time
                             > scene_plan[i].start_time

\* C26 witness: a schedule of three or more scenes separated by a non-zero
\* transition.
C26_Witness ==
    /\ plan_pc = "done"
    /\ Len(scene_plan) >= 3
    /\ PlanGap(1) > 0
    /\ PlanGap(2) = PlanGap(1)

----------------------------------------------------------------------------
\* validate_and_correct_timing (subtitle_service.py 763-824)

MaxSegments    == 3      \* segment lists of length 0..MaxSegments
MaxStartTenths == 5      \* start times 0.0s .. 0.5s in steps of 0.1s

CaptionStarts    == {k * Tenth : k \in 0..MaxStartTenths}
CaptionLengths   == {0, 3 * Tenth, 6 * Tenth}
CaptionAudio     == {0, 5 * Tenth, 10 * Tenth}

\* Segments as parse_srt_file hands them over: id, start_time, end_time
\* (the text travels with the id).
CaptionSegments(k) ==
    {[id |-> k, start_time |-> s, end_time |-> s + d] :
        s \in CaptionStarts, d \in CaptionLengths}

CaptionLists ==
    UNION {{ls \in [1..n -> UNION {CaptionSegments(k) : k \in 1..n}] :
               \A k \in 1..n : ls[k].id = k} : n \in 0..MaxSegments}

EndOfLastSegment(segs) == segs[Len(segs)].end_time

\* line 781: max(segment['end_time'] for segment in segments)
RECURSIVE MaxEndTime(_)
MaxEndTime(segs) ==
    IF Len(segs) = 1 THEN segs[1].end_time
    ELSE Max2(segs[1].end_time, MaxEndTime(Tail(segs)))

\* line 785: last_end_time > actual_audio_duration * 1.1
NeedsScaling(segs, audio) == 10 * MaxEndTime(segs) > 11 * audio

\* lines 787-792: every start and end multiplied by audio / last_end_time
\* (rounded down to the tick).
ScaleTime(t, audio, last_end_time) == (t * audio) \div last_end_time

ScaleSegments(segs, audio) ==
    LET last_end_time == MaxEndTime(segs)
    IN  [i \in 1..Len(segs) |->
            [segs[i] EXCEPT
                !.start_time = ScaleTime(segs[i].start_time, audio, last_end_time),
                !.end_time   = ScaleTime(segs[i].end_time, audio, last_end_time)]]

\* The list the loop of line 798 reads: the input, scaled in place or not.
ScaledInput(segs, audio) ==
    IF segs = << >> THEN segs
    ELSE IF NeedsScaling(segs, audio) THEN ScaleSegments(segs, audio)
    ELSE segs

\* lines 801-805: minimum duration of 0.5s
EnsureMinDuration(seg) ==
    IF seg.end_time - seg.start_time < HalfSecond
    THEN seg.start_time + HalfSecond ELSE seg.end_time

\* lines 807-811: 0.1s gap before the next segment of the list
EnsureGap(segs, i, end_time) ==
    IF i < Len(segs) /\ end_time > segs[i + 1].start_time - Tenth
    THEN segs[i + 1].start_time - Tenth ELSE end_time

ClampToAudio_Off(end_time, audio) == end_time

\* lines 813-815: clamp to the audio duration
ClampToAudio(end_time, audio) == IF end_time > audio THEN audio ELSE end_time

CorrectSegment_EarlierStart(segs, i, audio) ==
    [segs[i] EXCEPT
        !.start_time = IF segs[i].end_time - @ < HalfSecond /\ @ >= Tenth
                       THEN @ - Tenth ELSE @,
        !.end_time =
            ClampToAudio(EnsureGap(segs, i, EnsureMinDuration(segs[i])), audio)]

\* lines 799-815: the corrected copy of segment i
CorrectSegment(segs, i, audio) ==
    [segs[i] EXCEPT !.end_time =
        ClampToAudio(EnsureGap(segs, i, EnsureMinDuration(segs[i])), audio)]

\* lines 817-821: the final validation
KeepSegment(seg) == seg.start_time < seg.end_time

\* lines 797-824: the forward pass, from segment i on
RECURSIVE CorrectFrom(_, _, _)
CorrectFrom(segs, i, audio) ==
    IF i > Len(segs) THEN << >>
    ELSE LET c == CorrectSegment(segs, i, audio)
         IN  IF KeepSegment(c) THEN <<c>> \o CorrectFrom(segs, i + 1, audio)
             ELSE CorrectFrom(segs, i + 1, audio)

validate_and_correct_timing(segs, audio) ==
    IF segs = << >> THEN segs
    ELSE CorrectFrom(ScaledInput(segs, audio), 1, audio)

PlanIdle ==
    /\ image_paths = << >>
    /\ audio_duration = 0
    /\ min_scene_duration = 0
    /\ max_scene_duration = 0
    /\ transition_duration = 0
    /\ scene_plan = << >>
    /\ plan_pc = "idle"

InitCaption ==
    /\ PlanIdle
    /\ ProbeIdle
    /\ RenderIdle
    /\ ConcIdle
    /\ SubIdle
    /\ RouteIdle
    /\ segments \in CaptionLists
    /\ segments_in = segments
    /\ actual_audio_duration \in CaptionAudio
    /\ corrected_segments = << >>
    /\ corrected_again = << >>
    /\ cap_pc = "call"

\* The first call: segments = validate_and_correct_timing(segments, duration)
CorrectTiming ==
    /\ cap_pc = "call"
    /\ corrected_segments' =
           validate_and_correct_timing(segments, actual_audio_duration)
    /\ segments' = ScaledInput(segments, actual_audio_duration)
    /\ cap_pc' = "once"
    /\ UNCHANGED <<segments_in, actual_audio_duration, corrected_again>>
    /\ OnlyCaption

\* The correction applied to its own output, same audio duration.
CorrectTimingAgain ==
    /\ cap_pc = "once"
    /\ corrected_again' =
           validate_and_correct_timing(corrected_segments, actual_audio_duration)
    /\ cap_pc' = "twice"
    /\ UNCHANGED <<segments, segments_in, actual_audio_duration,
                   corrected_segments>>
    /\ OnlyCaption

NextCaption == CorrectTiming \/ CorrectTimingAgain

SpecCaption == InitCaption /\ [][NextCaption]_vars

\* C4: every returned segment satisfies start_time < end_time <= audio_duration
\* (a segment whose corrected start_time >= end_time is not emitted).
C4_SegmentsWithinAudio ==
    cap_pc \in {"once", "twice"} =>
        \A i \in 1..Len(corrected_segments) :
            /\ corrected_segments[i].start_time < corrected_segments[i].end_time
            /\ corrected_segments[i].end_time <= actual_audio_duration

\* C4 witness: a call that clamped one segment to the audio duration and
\* dropped another.
C4_Witness ==
    /\ cap_pc = "once"
    /\ Len(segments_in) >= 2
    /\ Len(corrected_segments) >= 1
    /\ Len(corrected_segments) < Len(segments_in)
    /\ \E i \in 1..Len(corrected_segments) :
           /\ corrected_segments[i].end_time = actual_audio_duration
           /\ \E j \in 1..Len(segments) :
                  /\ segments[j].id = corrected_segments[i].id
                  /\ segments[j].end_time > actual_audio_duration

\* C5: consecutive returned segments keep the 0.1s gap:
\* end_time[i] <= start_time[i+1] - 0.1.
C5_NoOverlap ==
    cap_pc \in {"once", "twice"} =>
        \A i \in 1..(Len(corrected_segments) - 1) :
            corrected_segments[i].end_time
                <= corrected_segments[i + 1].start_time - Tenth

\* C10: the correction is idempotent: applied to its own output it returns
\* the same list.
C10_Idempotent ==
    cap_pc = "twice" => corrected_again = corrected_segments

\* C11: every returned segment lasts at least 0.5s:
\* end_time - start_time >= 0.5s.
C11_MinimumDuration ==
    cap_pc \in {"once", "twice"} =>
        \A i \in 1..Len(corrected_segments) :
            corrected_segments[i].end_time - corrected_segments[i].start_time
                >= HalfSecond

\* The caller's list after the call is the list before the call with every
\* start_time and end_time multiplied by audio / reference when reference
\* exceeds audio * 1.1, and is the list before the call otherwise.
ScaledBy(reference) ==
    LET scaled == 10 * reference > 11 * actual_audio_duration
        Scale(t) == IF scaled THEN (t * actual_audio_duration) \div reference
                    ELSE t
    IN  /\ Len(segments) = Len(segments_in)
        /\ \A i \in 1..Len(segments) :
               /\ segments[i].start_time = Scale(segments_in[i].start_time)
               /\ segments[i].end_time = Scale(segments_in[i].end_time)

\* C27 as stated: timings are scaled exactly when the end_time of the last
\* segment of the input list exceeds audio_duration * 1.1, by audio_duration
\* over that end_time; otherwise nothing is scaled.
C27_ScaledByLastSegment ==
    (cap_pc = "once" /\ segments_in # << >>)
        => ScaledBy(segments_in[Len(segments_in)].end_time)

\* C27: timings are scaled exactly when the largest end_time of the input
\* list exceeds audio_duration * 1.1, and then every start_time and end_time
\* is multiplied by audio_duration over that largest end_time; otherwise no
\* segment is scaled.
C27_ScaledByLargestEnd ==
    (cap_pc = "once" /\ segments_in # << >>)
        => LET ends == {segments_in[i].end_time : i \in 1..Len(segments_in)}
           IN  ScaledBy(CHOOSE e \in ends : \A f \in ends : f <= e)

\* C27 witness: a list whose last segment does not end last and ends within
\* audio_duration * 1.1, scaled because an earlier segment ends beyond it.
C27_Witness ==
    /\ cap_pc = "once"
    /\ Len(segments_in) >= 2
    /\ 10 * segments_in[Len(segments_in)].end_time
           <= 11 * actual_audio_duration
    /\ \E i \in 1..Len(segments_in) :
           /\ 10 * segments_in[i].end_time > 11 * actual_audio_duration
           /\ segments[i].end_time < segments_in[i].end_time

\* C28: after the optional uniform scale only end_time changes: every
\* returned segment is the (scaled) input segment of the same id with every
\* field but end_time as it was (start_time, id and the text that goes with
\* it), and the returned segments are in input order, each input segment
\* used at most once.
C28_OnlyEndTimeChanges ==
    cap_pc \in {"once", "twice"} =>
        /\ \A i \in 1..Len(corrected_segments) :
               LET j == corrected_segments[i].id
               IN  /\ j \in 1..Len(segments)
                   /\ corrected_segments[i] =
                          [segments[j] EXCEPT
                              !.end_time = corrected_segments[i].end_time]
        /\ \A i \in 1..(Len(corrected_segments) - 1) :
               corrected_segments[i].id < corrected_segments[i + 1].id

\* C28 witness: a scaled list from which one segment was dropped and another
\* returned with its scaled start_time and a different end_time.
C28_Witness ==
    /\ cap_pc = "once"
    /\ segments # segments_in
    /\ Len(corrected_segments) < Len(segments_in)
    /\ \E i \in 1..Len(corrected_segments) :
           LET j == corrected_segments[i].id
           IN  /\ corrected_segments[i].start_time = segments[j].start_time
               /\ corrected_segments[i].start_time < segments_in[j].start_time
               /\ corrected_segments[i].end_time # segments[j].end_time

\* C29: the call leaves the caller's list as it was: after it every segment
\* of that list has the start_time and end_time it had before.
C29_InputUnchanged ==
    cap_pc \in {"once", "twice"} =>
        /\ Len(segments) = Len(segments_in)
        /\ \A i \in 1..Len(segments) :
               /\ segments[i].start_time = segments_in[i].start_time
               /\ segments[i].end_time = segments_in[i].end_time

----------------------------------------------------------------------------
\* generate_subtitles_from_audio (subtitle_service.py 183-251)

\* What transcribe_audio can do (lines 210-213): return the text with the
\* .srt written, return no text, leave no .srt behind, or raise.
Transcriptions == {"ok", "no_text", "no_file", "raised"}

\* lines 216-221: get_audio_duration returns a number, or raises and the
\* handler takes 30.
SubtitleProbes ==
    {[raised |-> TRUE, value |-> NoValue]}
        \cup {[raised |-> FALSE, value |-> d] : d \in CaptionAudio}

\* line 236: max(segment['end_time'] for segment in segments) raises
\* ValueError on an empty list.
TotalDurationRaises(segs) == segs = << >>

\* The whole call.  The parsed list (line 224) is the one drawn in the
\* initial state; every exception is re-raised by the handler of lines
\* 250-251.
GenerateSubtitles ==
    /\ sub_pc = "call"
    /\ \E t \in Transcriptions, o \in SubtitleProbes :
          /\ transcription' = t
          /\ IF t # "ok"
             THEN \* line 213, or the exception of transcribe_audio
                  /\ sub_pc' = "raised"
                  /\ srt_file' = IF t = "no_text" THEN "transcribed"
                                                  ELSE "absent"
                  /\ UNCHANGED <<segments, actual_audio_duration,
                                 corrected_segments, total_duration>>
             ELSE LET actual == IF o.raised THEN 30 * OneSecond ELSE o.value
                      corrected == validate_and_correct_timing(segments, actual)
                  IN  /\ actual_audio_duration' = actual
                      /\ IF segments # << >>
                         THEN \* lines 226-236
                              /\ segments' = ScaledInput(segments, actual)
                              /\ corrected_segments' = corrected
                              /\ srt_file' = "corrected"
                              /\ IF TotalDurationRaises(corrected)
                                 THEN /\ sub_pc' = "raised"
                                      /\ UNCHANGED total_duration
                                 ELSE /\ sub_pc' = "returned"
                                      /\ total_duration' = MaxEndTime(corrected)
                         ELSE \* lines 237-239
                              /\ sub_pc' = "returned"
                              /\ total_duration' = actual
                              /\ srt_file' = "transcribed"
                              /\ UNCHANGED <<segments, corrected_segments>>
    /\ UNCHANGED <<segments_in, corrected_again, cap_pc>>
    /\ OnlySubtitles

InitSubtitles ==
    /\ PlanIdle
    /\ ProbeIdle
    /\ RenderIdle
    /\ ConcIdle
    /\ RouteIdle
    /\ segments \in CaptionLists
    /\ segments_in = segments
    /\ actual_audio_duration = NoValue
    /\ corrected_segments = << >>
    /\ corrected_again = << >>
    /\ cap_pc = "idle"
    /\ sub_pc = "call"
    /\ transcription = "pending"
    /\ total_duration = NoValue
    /\ srt_file = "absent"

NextSubtitles == GenerateSubtitles

SpecSubtitles == InitSubtitles /\ [][NextSubtitles]_vars

\* C17: dropping segments during the timing correction is never fatal: once
\* the transcription has produced a parsable list, generate_subtitles_from_audio
\* returns (it does not raise) and hands back what the correction kept, also
\* when the correction kept nothing.
C17_DroppingNeverFatal ==
    (transcription = "ok" /\ sub_pc # "call")
        => /\ sub_pc = "returned"
           /\ Len(corrected_segments) <= Len(segments_in)

----------------------------------------------------------------------------
\* get_audio_duration (media_utils.py 506-613)

\* What one external tool invocation (subprocess.run) can do:
\*   duration     the tool ran and its output carries a parsable duration
\*   progress     the tool ran and its output carries time= progress markers
\*   unparsable   the tool ran and its output carries neither
\*   nonzero_exit the tool ended with a non-zero exit status, no duration
\*   timeout      subprocess.TimeoutExpired
\*   oserror      the binary could not be launched (OSError from Popen)
ToolDurations == {0, 25 * Tenth, 9 * OneSecond}

ToolOutcomes ==
    {[kind |-> "duration", value |-> d] : d \in ToolDurations}
        \cup {[kind |-> "progress", value |-> d] : d \in ToolDurations}
        \cup {[kind |-> k, value |-> NoValue] :
                 k \in {"unparsable", "nonzero_exit", "timeout", "oserror"}}

\* line 604: bytes per second at the assumed 128 kbit/s
BytesPerSecond == (128 * 1024) \div 8

FileSizes == {-1, 0, 20 * BytesPerSecond, 400 * BytesPerSecond}

\* lines 604-605: the estimate, clamped to [10.0, 300.0] seconds
EstimateFromSize(size) ==
    LET estimated_duration ==
            (size \div BytesPerSecond) * TicksPerSec
                + ((size % BytesPerSecond) * TicksPerSec) \div BytesPerSecond
    IN  Max2(10 * OneSecond, Min2(estimated_duration, 300 * OneSecond))

\* line 613 and line 510
FallbackDuration == 30 * OneSecond

\* Tier 1, lines 535-540: check=True, timeout=10, float(stdout); the handler
\* names TimeoutExpired, CalledProcessError and ValueError.
FfprobeCaught(kind) ==
    kind \in {"timeout", "nonzero_exit", "unparsable", "progress"}

\* Tiers 1.5 and 2, lines 549-563 and 570-597: no check=True, so a non-zero
\* exit is no exception; the handlers name TimeoutExpired and
\* CalledProcessError.
FfmpegCaught(kind) == kind \in {"timeout"}

ProbeReturn(tier, value) ==
    /\ probe_pc' = "returned"
    /\ probe_result' = value
    /\ probe_tier' = tier

ProbeGoto_ToFallback(next) ==
    /\ probe_pc' = "fallback"
    /\ UNCHANGED <<probe_result, probe_tier>>

ProbeGoto(next) ==
    /\ probe_pc' = next
    /\ UNCHANGED <<probe_result, probe_tier>>

ProbeLog(tier, kind) == probe_log' = Append(probe_log, <<tier, kind>>)

\* lines 508-510: the file is missing.  The return is announced as "Audio
\* file does not exist" (line 509), not as the fallback of lines 611-613.
ProbeMissingFile ==
    /\ probe_pc = "start"
    /\ ~audio_exists
    /\ ProbeReturn("missing_file", FallbackDuration)
    /\ UNCHANGED <<audio_exists, ffprobe_exists, file_size, probe_log>>
    /\ OnlyProbe

\* lines 514-542: tier 1, the metadata query
TryFfprobe ==
    /\ probe_pc = "start"
    /\ audio_exists
    /\ IF ~ffprobe_exists
       THEN /\ ProbeGoto("ffmpeg_info")
            /\ UNCHANGED probe_log
       ELSE \E o \in ToolOutcomes :
               /\ ProbeLog("ffprobe", o.kind)
               /\ IF o.kind = "duration" THEN ProbeReturn("ffprobe", o.value)
                  ELSE IF FfprobeCaught(o.kind) THEN ProbeGoto("ffmpeg_info")
                  ELSE ProbeGoto("raised")
    /\ UNCHANGED <<audio_exists, ffprobe_exists, file_size>>
    /\ OnlyProbe

\* lines 544-563: tier 1.5, the info-only run
TryFfmpegInfo ==
    /\ probe_pc = "ffmpeg_info"
    /\ \E o \in ToolOutcomes :
          /\ ProbeLog("ffmpeg_info", o.kind)
          /\ IF o.kind = "duration" THEN ProbeReturn("ffmpeg_info", o.value)
             ELSE IF o.kind = "oserror" THEN ProbeGoto("raised")
             ELSE ProbeGoto("ffmpeg_decode")
    /\ UNCHANGED <<audio_exists, ffprobe_exists, file_size>>
    /\ OnlyProbe

\* lines 565-597: tier 2, the full decode
TryFfmpegDecode ==
    /\ probe_pc = "ffmpeg_decode"
    /\ \E o \in ToolOutcomes :
          /\ ProbeLog("ffmpeg_decode", o.kind)
          /\ IF o.kind \in {"duration", "progress"}
             THEN ProbeReturn("ffmpeg_decode", o.value)
             ELSE IF o.kind = "oserror" THEN ProbeGoto("raised")
             ELSE ProbeGoto("file_size")
    /\ UNCHANGED <<audio_exists, ffprobe_exists, file_size>>
    /\ OnlyProbe

\* lines 599-609: tier 3, the estimate from the file size
EstimateFromFileSize ==
    /\ probe_pc = "file_size"
    /\ IF file_size >= 0
       THEN /\ ProbeLog("file_size", "duration")
            /\ ProbeReturn("file_size", EstimateFromSize(file_size))
       ELSE /\ ProbeLog("file_size", "oserror")
            /\ ProbeGoto("fallback")
    /\ UNCHANGED <<audio_exists, ffprobe_exists, file_size>>
    /\ OnlyProbe

\* lines 611-613: the fixed constant
FallbackDefault ==
    /\ probe_pc = "fallback"
    /\ ProbeReturn("fallback_default", FallbackDuration)
    /\ UNCHANGED <<audio_exists, ffprobe_exists, file_size, probe_log>>
    /\ OnlyProbe

InitProbe ==
    /\ PlanIdle
    /\ CaptionIdle
    /\ RenderIdle
    /\ ConcIdle
    /\ SubIdle
    /\ RouteIdle
    /\ audio_exists \in BOOLEAN
    /\ ffprobe_exists \in BOOLEAN
    /\ file_size \in FileSizes
    /\ probe_pc = "start"
    /\ probe_result = NoValue
    /\ probe_tier = "none"
    /\ probe_log = << >>

NextProbe ==
    \/ ProbeMissingFile
    \/ TryFfprobe
    \/ TryFfmpegInfo
    \/ TryFfmpegDecode
    \/ EstimateFromFileSize
    \/ FallbackDefault

SpecProbe == InitProbe /\ [][NextProbe]_vars

\* C6: get_audio_duration returns a strictly positive number on every path.
C6_PositiveDuration ==
    probe_pc = "returned" => probe_result > 0

\* C7: get_audio_duration never raises: every failure of a tool invocation
\* is absorbed and the cascade goes on to the next tier.
C7_NeverRaises ==
    probe_pc # "raised"

\* The tiers in the order of the function body (lines 514, 544, 565, 599).
ProbeTiers == <<"ffprobe", "ffmpeg_info", "ffmpeg_decode", "file_size">>

\* An attempt that ends its tier with a value (lines 537, 558, 583, 593, 607).
TierSucceeded(attempt) ==
    \/ attempt[2] = "duration"
    \/ attempt[1] = "ffmpeg_decode" /\ attempt[2] = "progress"

\* C13: on an existing file the tiers run as a strict ordered cascade:
\* metadata query, info-only parse, full-decode parse, file-size estimate,
\* constant 30.0.  A tier is attempted only after every earlier tier was
\* attempted and failed (the metadata query counts as failed when its binary
\* is missing), the first succeeding tier is the one whose value is returned,
\* and the constant 30.0 is returned only after tiers 1-4 all failed.
C13_StrictCascade ==
    audio_exists =>
        LET skipped == IF ffprobe_exists THEN 0 ELSE 1
            n == Len(probe_log)
        IN  /\ n + skipped <= Len(ProbeTiers)
            /\ \A i \in 1..n : probe_log[i][1] = ProbeTiers[i + skipped]
            /\ \A i \in 1..(n - 1) : ~TierSucceeded(probe_log[i])
            /\ (n >= 1 /\ TierSucceeded(probe_log[n]))
                   => /\ probe_pc = "returned"
                      /\ probe_tier = probe_log[n][1]
            /\ (probe_pc = "returned" /\ probe_tier # "fallback_default")
                   => /\ n >= 1
                      /\ TierSucceeded(probe_log[n])
                      /\ probe_tier = probe_log[n][1]
                      /\ probe_tier = "file_size"
                             => probe_result = EstimateFromSize(file_size)
            /\ (probe_pc = "returned" /\ probe_tier = "fallback_default")
                   => /\ n + skipped = Len(ProbeTiers)
                      /\ \A i \in 1..n : ~TierSucceeded(probe_log[i])
                      /\ probe_result = FallbackDuration

\* C13 witness: all four tiers were attempted on an existing file, all
\* failed, and the constant was returned.
C13_Witness ==
    /\ audio_exists
    /\ ffprobe_exists
    /\ probe_pc = "returned"
    /\ probe_tier = "fallback_default"
    /\ Len(probe_log) = Len(ProbeTiers)
    /\ probe_log[Len(ProbeTiers)] = <<"file_size", "oserror">>

\* C18: for a path to a nonexistent file get_audio_duration returns exactly
\* 30.0, tagged with the "fallback_default" tier, and invokes no external
\* tool.
C18_MissingFileFallback ==
    (probe_pc = "returned" /\ ~audio_exists)
        => /\ probe_result = FallbackDuration
           /\ probe_tier = "fallback_default"
           /\ probe_log = << >>

----------------------------------------------------------------------------
\* create_multi_scene_video (media_utils.py 427-503) with
\* create_video_with_transitions (731-793), create_video_simple_concat
\* (796-912) and create_video (300-333).

MaxRenderImages == 3     \* image lists of length 0..MaxRenderImages

RenderImageLists == {[i \in 1..n |-> i] : n \in 0..MaxRenderImages}

\* What a call of get_audio_duration can hand back to the renderer: the
\* outcomes of SpecProbe (a parsed duration, the constant, an exception);
\* a missing file always gives the constant (lines 508-510).
AudioProbes(exists) ==
    IF ~exists
    THEN {[raised |-> FALSE, value |-> FallbackDuration]}
    ELSE {[raised |-> TRUE, value |-> NoValue]}
             \cup {[raised |-> FALSE, value |-> d] :
                      d \in ToolDurations \cup {FallbackDuration}}

\* What a rendering ffmpeg run (subprocess.run(check=True)) can do:
\* exit 0 with the output written, exit 0 without an output file, or fail.
RenderOutcomes == {"ok", "ok_nofile", "failed"}

\* ffmpeg fails when one of its input files is missing.
RenderOutcomesFor(images) ==
    IF audio_exists /\ images \subseteq existing_images
    THEN RenderOutcomes ELSE {"failed"}

PlanImages == {scene_plan[k].image : k \in 1..Len(scene_plan)}

\* What a per-scene clip run can do (lines 829-837): succeed, fail with
\* CalledProcessError (with or without a partial clip on disk), or fail to
\* launch (OSError, not caught by the inner handler).
ClipOutcomes == {"ok", "failed", "failed_partial", "oserror"}

ClipFile(i) == <<"scene", i>>
ManifestFile == <<"concat", 0>>

Logged(events) == strategy_log' = strategy_log \o events

\* lines 464, 473, 495, 500-503: create_video(image_paths[0], ...) if
\* image_paths else None
GoSingleOrNone ==
    IF image_paths # << >>
    THEN /\ r_pc' = "single"
         /\ r_result' = r_result
    ELSE /\ r_pc' = "done"
         /\ r_result' = "None"

\* create_video_simple_concat entered (lines 796-802)
EnterConcat ==
    /\ r_pc' = "clips"
    /\ clip_i' = 1
    /\ scene_videos' = << >>

\* lines 457-464: the probe and the test of its result
RenderProbe ==
    /\ r_pc = "probe"
    /\ \E o \in AudioProbes(audio_exists) :
          IF o.raised \/ o.value <= 0
          THEN /\ GoSingleOrNone
               /\ UNCHANGED audio_duration
          ELSE /\ audio_duration' = o.value
               /\ r_pc' = "plan"
               /\ UNCHANGED r_result
    /\ UNCHANGED <<image_paths, min_scene_duration, max_scene_duration,
                   transition_duration, scene_plan, plan_pc>>
    /\ UNCHANGED <<enable_transitions, existing_images, strategy_log, clip_i,
                   scene_videos, manifest, temp_files, output_by, concat_exit,
                   render_td, render_trim>>
    /\ OnlyRender

\* lines 466-488: the scene plan and the choice of the renderer
RenderPlan ==
    /\ r_pc = "plan"
    /\ scene_plan' = calculate_scene_timing(image_paths, audio_duration,
                         min_scene_duration, max_scene_duration,
                         IF enable_transitions THEN transition_duration ELSE 0)
    /\ IF scene_plan' = << >>
       THEN /\ GoSingleOrNone
            /\ UNCHANGED <<strategy_log, clip_i, scene_videos>>
       ELSE IF enable_transitions /\ Len(scene_plan') > 1
       THEN /\ r_pc' = "crossfade"
            /\ UNCHANGED <<strategy_log, clip_i, scene_videos, r_result>>
       ELSE /\ EnterConcat
            /\ Logged(<< <<"concat", "start">> >>)
            /\ UNCHANGED r_result
    /\ UNCHANGED <<image_paths, audio_duration, min_scene_duration,
                   max_scene_duration, transition_duration, plan_pc>>
    /\ UNCHANGED <<enable_transitions, existing_images, manifest, temp_files,
                   output_by, concat_exit, render_td, render_trim>>
    /\ OnlyRender

\* lines 731-793: the crossfade composite; on any exception the function
\* returns create_video_simple_concat(...)
Crossfade ==
    /\ r_pc = "crossfade"
    /\ \E o \in AudioProbes(audio_exists), t \in RenderOutcomesFor(PlanImages) :
          IF o.raised
          THEN \* line 779 raises while the command is built
               /\ Logged(<< <<"crossfade", "start">>, <<"crossfade", "failed">>,
                            <<"concat", "start">> >>)
               /\ EnterConcat
               /\ UNCHANGED <<render_td, render_trim, output_by>>
          ELSE /\ render_td' = transition_duration
               /\ render_trim' = o.value
               /\ IF t = "failed"
                  THEN /\ Logged(<< <<"crossfade", "start">>,
                                    <<"crossfade", "failed">>,
                                    <<"concat", "start">> >>)
                       /\ EnterConcat
                       /\ UNCHANGED output_by
                  ELSE /\ Logged(<< <<"crossfade", "start">>,
                                    <<"crossfade", t>> >>)
                       /\ r_pc' = "check"
                       /\ output_by' = IF t = "ok" THEN "crossfade"
                                                   ELSE output_by
                       /\ UNCHANGED <<clip_i, scene_videos>>
    /\ UNCHANGED plan_vars
    /\ UNCHANGED <<enable_transitions, existing_images, manifest, temp_files,
                   concat_exit, r_result>>
    /\ OnlyRender

\* lines 896-912: the finally block removes the clips of scene_videos and
\* the manifest
AfterCleanup(present, clips) ==
    (present \ {ClipFile(clips[k]) : k \in 1..Len(clips)}) \ {ManifestFile}

ConcatRaises_Retry(present) ==
    /\ temp_files' = AfterCleanup(present, scene_videos)
    /\ concat_exit' = "raised"
    /\ Logged(<< <<"concat", "failed">>, <<"concat", "start">> >>)
    /\ r_pc' = "clips"

\* create_video_simple_concat left by an exception (lines 889-894, then the
\* finally block, then the handler of create_multi_scene_video, 497-503)
ConcatRaises(present) ==
    /\ temp_files' = AfterCleanup(present, scene_videos)
    /\ concat_exit' = "raised"
    /\ Logged(<< <<"concat", "failed">> >>)
    /\ r_pc' = "single"

\* lines 806-837: one round of the per-scene loop
ConcatClip ==
    /\ r_pc = "clips"
    /\ clip_i <= Len(scene_plan)
    /\ IF scene_plan[clip_i].image \notin existing_images
       THEN \* lines 807-809: skipped
            /\ clip_i' = clip_i + 1
            /\ UNCHANGED <<scene_videos, temp_files, concat_exit,
                           strategy_log, r_pc>>
       ELSE \E t \in ClipOutcomes :
               CASE t = "ok" ->
                        /\ temp_files' = temp_files \cup {ClipFile(clip_i)}
                        /\ scene_videos' = Append(scene_videos, clip_i)
                        /\ clip_i' = clip_i + 1
                        /\ UNCHANGED <<concat_exit, strategy_log, r_pc>>
                 [] t = "failed" ->
                        /\ clip_i' = clip_i + 1
                        /\ UNCHANGED <<scene_videos, temp_files, concat_exit,
                                       strategy_log, r_pc>>
                 [] t = "failed_partial" ->
                        /\ temp_files' = temp_files \cup {ClipFile(clip_i)}
                        /\ clip_i' = clip_i + 1
                        /\ UNCHANGED <<scene_videos, concat_exit,
                                       strategy_log, r_pc>>
                 [] t = "oserror" ->
                        /\ ConcatRaises(temp_files)
                        /\ UNCHANGED <<scene_videos, clip_i>>
    /\ UNCHANGED plan_vars
    /\ UNCHANGED <<enable_transitions, existing_images, manifest, output_by,
                   render_td, render_trim, r_result>>
    /\ OnlyRender

\* lines 839-912: the manifest, the probe, the final mux and the cleanup
ConcatMux ==
    /\ r_pc = "clips"
    /\ clip_i > Len(scene_plan)
    /\ IF scene_videos = << >>
       THEN \* lines 839-840
            /\ ConcatRaises(temp_files)
            /\ UNCHANGED <<manifest, output_by, render_trim>>
       ELSE /\ manifest' = scene_videos
            /\ \E o \in AudioProbes(audio_exists), t \in RenderOutcomesFor({}) :
                  IF o.raised
                  THEN /\ ConcatRaises(temp_files \cup {ManifestFile})
                       /\ UNCHANGED <<output_by, render_trim>>
                  ELSE /\ render_trim' = o.value
                       /\ output_by' = IF t = "ok" THEN "concat" ELSE output_by
                       /\ IF t = "failed" \/ output_by' = "none"
                          THEN \* CalledProcessError, or line 885
                               ConcatRaises(temp_files \cup {ManifestFile})
                          ELSE /\ temp_files' =
                                      AfterCleanup(temp_files \cup {ManifestFile},
                                                   scene_videos)
                               /\ concat_exit' = "returned"
                               /\ Logged(<< <<"concat", "ok">> >>)
                               /\ r_pc' = "check"
    /\ UNCHANGED plan_vars
    /\ UNCHANGED <<enable_transitions, existing_images, clip_i, scene_videos,
                   render_td, r_result>>
    /\ OnlyRender

\* lines 490-495: the returned path is kept only if the file exists
ResultCheck ==
    /\ r_pc = "check"
    /\ IF output_by # "none"
       THEN /\ r_pc' = "done"
            /\ r_result' = "output_path"
       ELSE /\ r_pc' = "single"
            /\ UNCHANGED r_result
    /\ UNCHANGED plan_vars
    /\ UNCHANGED <<enable_transitions, existing_images, strategy_log, clip_i,
                   scene_videos, manifest, temp_files, output_by, concat_exit,
                   render_td, render_trim>>
    /\ OnlyRender

\* create_video(image_paths[0], audio_path, output_path), lines 300-333:
\* the path on exit 0, None on any exception
SingleScene ==
    /\ r_pc = "single"
    /\ \E t \in RenderOutcomesFor({image_paths[1]}) :
          /\ Logged(<< <<"single", "start">>, <<"single", t>> >>)
          /\ output_by' = IF t = "ok" THEN "single" ELSE output_by
          /\ r_result' = IF t = "failed" THEN "None" ELSE "output_path"
    /\ r_pc' = "done"
    /\ UNCHANGED plan_vars
    /\ UNCHANGED <<enable_transitions, existing_images, clip_i, scene_videos,
                   manifest, temp_files, concat_exit, render_td, render_trim>>
    /\ OnlyRender

InitRender ==
    /\ CaptionIdle
    /\ ConcIdle
    /\ SubIdle
    /\ RouteIdle
    /\ image_paths \in RenderImageLists
    /\ audio_duration = NoValue
    /\ min_scene_duration = 3 * OneSecond
    /\ max_scene_duration = 8 * OneSecond
    /\ transition_duration = HalfSecond
    /\ scene_plan = << >>
    /\ plan_pc = "idle"
    /\ audio_exists \in BOOLEAN
    /\ ffprobe_exists = FALSE
    /\ file_size = 0
    /\ probe_pc = "idle"
    /\ probe_result = NoValue
    /\ probe_tier = "none"
    /\ probe_log = << >>
    /\ enable_transitions \in BOOLEAN
    /\ existing_images \in SUBSET {image_paths[i] : i \in 1..Len(image_paths)}
    /\ r_pc = "probe"
    /\ strategy_log = << >>
    /\ clip_i = 0
    /\ scene_videos = << >>
    /\ manifest = << >>
    /\ temp_files = {}
    /\ output_by = "none"
    /\ concat_exit = "no"
    /\ render_td = NoValue
    /\ render_trim = NoValue
    /\ r_result = "pending"

NextRender ==
    \/ RenderProbe
    \/ RenderPlan
    \/ Crossfade
    \/ ConcatClip
    \/ ConcatMux
    \/ ResultCheck
    \/ SingleScene

SpecRender == InitRender /\ [][NextRender]_vars

\* The strategies in the order they were started.
RECURSIVE StartedOf(_)
StartedOf(log) ==
    IF log = << >> THEN << >>
    ELSE IF log[1][2] = "start" THEN <<log[1][1]>> \o StartedOf(Tail(log))
    ELSE StartedOf(Tail(log))

StrategyOrder == <<"crossfade", "concat", "single">>

\* C3: with transitions enabled and at least two planned scenes the
\* strategies are attempted in the order crossfade, concatenation,
\* single-scene; a strategy is started only after the one before it failed;
\* the first strategy that succeeds is the one whose output is returned.
C3_EscalationOrder ==
    (enable_transitions /\ Len(scene_plan) >= 2)
        => LET started == StartedOf(strategy_log)
           IN  /\ \A k \in 1..Len(started) : started[k] = StrategyOrder[k]
               /\ \A j \in 2..Len(strategy_log) :
                      strategy_log[j][2] = "start"
                          => strategy_log[j - 1][2] \in {"failed", "ok_nofile"}
               /\ \A j \in 1..Len(strategy_log) :
                      (r_pc = "done" /\ strategy_log[j][2] = "ok"
                           /\ \A h \in 1..(j - 1) : strategy_log[h][2] # "ok")
                          => /\ r_result = "output_path"
                             /\ output_by = strategy_log[j][1]

\* C8: once create_video_simple_concat has exited, by returning or by
\* raising, none of the clip files and no manifest it created is left in
\* the temp directory.
C8_NoClipOrManifestLeft ==
    concat_exit # "no" => temp_files = {}

\* C14: within one create_multi_scene_video invocation each render strategy
\* (crossfade, concatenation, single-scene) is started at most once, and the
\* pipeline is never back at its beginning (the probe, the plan) once a
\* strategy has been started, whatever the strategies' outcomes.
C14_EachStrategyAtMostOnce ==
    LET started == StartedOf(strategy_log)
    IN  /\ \A i, j \in 1..Len(started) : started[i] = started[j] => i = j
        /\ r_pc \in {"probe", "plan"} => started = << >>

\* C14 witness: an invocation that went through all three strategies, each
\* one failing, and returned no result.
C14_Witness ==
    /\ r_pc = "done"
    /\ StartedOf(strategy_log) = StrategyOrder
    /\ r_result = "None"

\* An input of create_multi_scene_video is invalid: the audio file or an
\* image file is missing, or the image list is empty.
InvalidInput ==
    \/ ~audio_exists
    \/ \E i \in 1..Len(image_paths) : image_paths[i] \notin existing_images
    \/ image_paths = << >>

\* C16: with an invalid input create_multi_scene_video surfaces the failure
\* at once: no render strategy (crossfade, concatenation, single-scene) is
\* started, no fallback is attempted, and no result is returned.
C16_InvalidInputNoStrategy ==
    (r_pc # "idle" /\ InvalidInput)
        => /\ strategy_log = << >>
           /\ r_pc = "done" => r_result = "None"

\* C22: the transition duration the crossfade composite runs with equals the
\* effective transition duration of the scene plan: when the planner
\* disabled transitions (the gaps of the plan are 0) the composite is not run
\* with the original non-zero transition_duration.
C22_RendererUsesPlanTransition ==
    render_td # NoValue
        => \A i \in 1..(Len(scene_plan) - 1) : PlanGap(i) = render_td

\* C23: within one invocation the audio duration the scene plan was computed
\* from equals the duration passed as the output trim (-t) by the renderer
\* that produced the output, whatever the probe tool does on each of its
\* invocations.
C23_TrimEqualsPlannedDuration ==
    (r_pc = "done" /\ output_by \in {"crossfade", "concat"})
        => render_trim = audio_duration

\* C24: on every successful simple-concatenation render the manifest lists
\* exactly one clip per scene-plan entry, in scene-plan order: no scene is
\* reordered, duplicated or omitted.
C24_ManifestMatchesPlan ==
    concat_exit = "returned"
        => manifest = [k \in 1..Len(scene_plan) |-> k]

----------------------------------------------------------------------------
\* create_complete_video (api/routes/video.py 25-351): one request, from
\* the audio download to the response.  The multi-scene render is the
\* create_multi_scene_video machine above, started by the route.

\* Temp files of the request: <<kind, index>>.
AudioFile      == <<"audio", 0>>          \* line 128
BgFile(i)      == <<"bg", i>>             \* line 177
VideoFile      == <<"video", 0>>          \* line 190
SrtFile        == <<"srt", 0>>            \* subtitle_service.py 200
FinalVideoFile == <<"final_video", 0>>    \* line 264

ValidLists ==
    UNION {[1..n -> BOOLEAN] : n \in 1..MaxRenderImages}

Called(calls) == rt_calls' = rt_calls \o calls

\* lines 349-351: the handler around the whole body turns whatever was
\* raised, an HTTPException included, into an HTTPException with status 500.
RouteFails(inner) ==
    /\ rt_raised' = rt_raised \o inner \o <<500>>
    /\ rt_response' = 500
    /\ rt_pc' = "done"

\* What the steps before and during the audio download can do (lines
\* 68-138): a request that is rejected (400), a download that fails (400),
\* a download that succeeds.
AudioSteps == {"rejected", "download_failed", "ok"}

Downloads == {"ok", "failed"}

\* line 192: the multi-scene renderer is used for more than one background
UseMultiScene_Always(paths) == TRUE

UseMultiScene(paths) == Len(paths) > 1

\* line 212: if not video_result
VideoResultFails_Off(result) == FALSE

VideoResultFails(result) == result = "None"

RouteRenderIdle == UNCHANGED <<plan_vars, probe_vars, render_vars>>

\* lines 68-146
RouteAudio ==
    /\ rt_pc = "audio"
    /\ \E o \in AudioSteps :
          IF o = "ok"
          THEN /\ rt_files' = rt_files \cup {AudioFile}
               /\ audio_exists' = TRUE
               /\ rt_pc' = "backgrounds"
               /\ UNCHANGED <<rt_raised, rt_response>>
          ELSE /\ RouteFails(<<400>>)
               /\ UNCHANGED <<rt_files, audio_exists>>
    /\ UNCHANGED <<rt_valid, rt_j, background_paths, subtitle_enabled,
                   rt_calls>>
    /\ UNCHANGED <<plan_vars, render_vars, ffprobe_exists, file_size,
                   probe_pc, probe_result, probe_tier, probe_log>>
    /\ OnlyRoute

\* lines 163-183: one round of the background loop
RouteBackground ==
    /\ rt_pc = "backgrounds"
    /\ rt_j <= Len(rt_valid)
    /\ IF ~rt_valid[rt_j]
       THEN \* lines 165-174: skipped
            /\ rt_j' = rt_j + 1
            /\ UNCHANGED <<rt_pc, background_paths, rt_files, rt_raised,
                           rt_response>>
       ELSE \E d \in Downloads :
               IF d = "ok"
               THEN /\ rt_files' = rt_files \cup {BgFile(rt_j)}
                    /\ background_paths' = Append(background_paths, rt_j)
                    /\ rt_j' = rt_j + 1
                    /\ UNCHANGED <<rt_pc, rt_raised, rt_response>>
               ELSE \* line 180 raises
                    /\ RouteFails(<< >>)
                    /\ UNCHANGED <<rt_j, background_paths, rt_files>>
    /\ UNCHANGED <<rt_valid, subtitle_enabled, rt_calls>>
    /\ RouteRenderIdle
    /\ OnlyRoute

\* lines 185-210: the choice of the renderer, and its call
RouteCreate ==
    /\ rt_pc = "backgrounds"
    /\ rt_j > Len(rt_valid)
    /\ IF background_paths = << >>
       THEN \* line 186
            /\ RouteFails(<<404>>)
            /\ UNCHANGED <<rt_calls, image_paths, existing_images, r_pc>>
       ELSE /\ image_paths' = background_paths
            /\ existing_images' =
                   {background_paths[k] : k \in 1..Len(background_paths)}
            /\ rt_pc' = "rendering"
            /\ UNCHANGED <<rt_raised, rt_response>>
            /\ IF UseMultiScene(background_paths)
               THEN /\ Called(<<"create_multi_scene_video">>)
                    /\ r_pc' = "probe"
               ELSE /\ Called(<<"create_video">>)
                    /\ r_pc' = "single"
    /\ UNCHANGED <<rt_valid, rt_j, background_paths, subtitle_enabled,
                   rt_files>>
    /\ UNCHANGED <<audio_duration, min_scene_duration, max_scene_duration,
                   transition_duration, scene_plan, plan_pc>>
    /\ UNCHANGED <<enable_transitions, strategy_log, clip_i, scene_videos,
                   manifest, temp_files, output_by, concat_exit, render_td,
                   render_trim, r_result>>
    /\ UNCHANGED probe_vars
    /\ OnlyRoute

\* lines 212-218: the renderer has returned
RouteResult ==
    /\ rt_pc = "rendering"
    /\ r_pc = "done"
    /\ rt_files' = IF output_by # "none" THEN rt_files \cup {VideoFile}
                                         ELSE rt_files
    /\ IF VideoResultFails(r_result)
       THEN RouteFails(<<500>>)
       ELSE /\ rt_pc' = IF subtitle_enabled THEN "subtitles" ELSE "upload"
            /\ UNCHANGED <<rt_raised, rt_response>>
    /\ UNCHANGED <<rt_valid, rt_j, background_paths, subtitle_enabled,
                   rt_calls>>
    /\ RouteRenderIdle
    /\ OnlyRoute

\* What generate_subtitles_from_audio can do for the route (lines 228-249):
\* return with the .srt written, raise before the .srt exists, or raise
\* with the .srt already in TEMP_DIR (subtitle_service.py 236).
SubtitleRuns == {"returned", "raised", "raised_srt_left"}

\* What add_subtitles can do on an existing video (subtitle_service.py
\* 517-610): return the output path, or None with or without an unusable
\* output file left behind.
AddSubtitleRuns == {"ok", "none", "none_partial"}

\* lines 216-282: step 4, every failure absorbed
RouteSubtitles ==
    /\ rt_pc = "subtitles"
    /\ \E g \in SubtitleRuns, a \in AddSubtitleRuns :
          IF g # "returned"
          THEN \* lines 246-249
               /\ Called(<<"generate_subtitles_from_audio">>)
               /\ rt_files' = IF g = "raised_srt_left"
                              THEN rt_files \cup {SrtFile} ELSE rt_files
          ELSE /\ Called(<<"generate_subtitles_from_audio", "add_subtitles">>)
               /\ IF VideoFile \notin rt_files
                  THEN \* add_subtitles raises (subtitle_service.py
                       \* 529-530), absorbed at lines 280-282
                       rt_files' = rt_files \cup {SrtFile}
                  ELSE CASE a = "ok" ->
                                \* lines 267-274: the .srt is kept
                                rt_files' = (rt_files
                                                \cup {SrtFile, FinalVideoFile})
                                                \ {VideoFile}
                         [] a = "none" ->
                                \* lines 275-279: the .srt is removed
                                rt_files' = rt_files \ {SrtFile}
                         [] a = "none_partial" ->
                                rt_files' = (rt_files \cup {FinalVideoFile})
                                                \ {SrtFile}
    /\ rt_pc' = "upload"
    /\ UNCHANGED <<rt_valid, rt_j, background_paths, subtitle_enabled,
                   rt_raised, rt_response>>
    /\ RouteRenderIdle
    /\ OnlyRoute

\* final_video_path (lines 215 and 269)
FinalVideoPath ==
    IF VideoFile \notin rt_files /\ FinalVideoFile \in rt_files
    THEN FinalVideoFile ELSE VideoFile

\* lines 316-320: cleanup_files = [audio_path, final_video_path]
\* + background_paths
CleanupFiles ==
    {AudioFile, FinalVideoPath}
        \cup {BgFile(background_paths[k]) : k \in 1..Len(background_paths)}

\* lines 283-347: the upload, the cleanup and the response
RouteUpload ==
    /\ rt_pc = "upload"
    /\ Called(<<"upload_media">>)
    /\ \E u \in Downloads :
          IF u = "ok" /\ FinalVideoPath \in rt_files
          THEN /\ rt_files' = rt_files \ CleanupFiles
               /\ rt_response' = 200
               /\ rt_pc' = "done"
               /\ UNCHANGED rt_raised
          ELSE /\ RouteFails(<< >>)
               /\ UNCHANGED rt_files
    /\ UNCHANGED <<rt_valid, rt_j, background_paths, subtitle_enabled>>
    /\ RouteRenderIdle
    /\ OnlyRoute

InitRoute ==
    /\ CaptionIdle
    /\ ConcIdle
    /\ SubIdle
    /\ image_paths = << >>
    /\ audio_duration = NoValue
    /\ min_scene_duration = 3 * OneSecond
    /\ max_scene_duration = 8 * OneSecond
    /\ transition_duration = HalfSecond
    /\ scene_plan = << >>
    /\ plan_pc = "idle"
    /\ ProbeIdle
    /\ enable_transitions \in BOOLEAN
    /\ existing_images = {}
    /\ r_pc = "idle"
    /\ strategy_log = << >>
    /\ clip_i = 0
    /\ scene_videos = << >>
    /\ manifest = << >>
    /\ temp_files = {}
    /\ output_by = "none"
    /\ concat_exit = "no"
    /\ render_td = NoValue
    /\ render_trim = NoValue
    /\ r_result = "pending"
    /\ rt_pc = "audio"
    /\ rt_valid \in ValidLists
    /\ rt_j = 1
    /\ background_paths = << >>
    /\ subtitle_enabled \in BOOLEAN
    /\ rt_files = {}
    /\ rt_calls = << >>
    /\ rt_raised = << >>
    /\ rt_response = 0

NextRoute ==
    \/ RouteAudio
    \/ RouteBackground
    \/ RouteCreate
    \/ RenderProbe
    \/ RenderPlan
    \/ Crossfade
    \/ ConcatClip
    \/ ConcatMux
    \/ ResultCheck
    \/ SingleScene
    \/ RouteResult
    \/ RouteSubtitles
    \/ RouteUpload

SpecRoute == InitRoute /\ [][NextRoute]_vars

InCalls(name) == \E k \in 1..Len(rt_calls) : rt_calls[k] = name

CallCount(name) == Cardinality({k \in 1..Len(rt_calls) : rt_calls[k] = name})

\* C15: for a non-empty image list the renderer returns no result only after
\* the single-scene fallback with the first image was attempted and failed;
\* the route then raises one creation error, answered with HTTP 500, and
\* performs no upload.
C15_NoneOnlyAfterSingleSceneFailed ==
    /\ (r_pc = "done" /\ r_result = "None" /\ image_paths # << >>)
           => /\ strategy_log # << >>
              /\ strategy_log[Len(strategy_log)] = <<"single", "failed">>
    /\ (rt_pc \in {"subtitles", "upload", "done"} /\ r_result = "None")
           => /\ rt_pc = "done"
              /\ rt_response = 500
              /\ rt_raised = <<500, 500>>
              /\ ~InCalls("upload_media")

\* C15 witness: a multi-scene request whose three strategies all failed and
\* which the route answered with 500.
C15_Witness ==
    /\ rt_pc = "done"
    /\ Len(image_paths) >= 2
    /\ StartedOf(strategy_log) = StrategyOrder
    /\ r_result = "None"
    /\ rt_response = 500

\* C19: a request that resolves to exactly one valid image and reaches the
\* video creation step takes the single-scene path: create_video is called
\* once with that image, and neither the scene planner nor the crossfade or
\* concatenation renderer runs.
C19_OneImageSingleScene ==
    (rt_pc \in {"rendering", "subtitles", "upload", "done"}
         /\ r_pc # "idle" /\ Len(background_paths) = 1)
        => /\ CallCount("create_video") = 1
           /\ ~InCalls("create_multi_scene_video")
           /\ image_paths = background_paths
           /\ r_pc \in {"single", "done"}
           /\ scene_plan = << >>
           /\ audio_duration = NoValue
           /\ \A k \in 1..Len(strategy_log) : strategy_log[k][1] = "single"
           /\ Len(StartedOf(strategy_log)) <= 1

\* C19 witness: a request listing several ids of which only one is valid,
\* rendered by create_video and answered.
C19_Witness ==
    /\ rt_pc = "done"
    /\ Len(rt_valid) >= 2
    /\ Len(background_paths) = 1
    /\ StartedOf(strategy_log) = <<"single">>
    /\ rt_response = 200

\* C20: at the end of every invocation, on the success path and on every
\* failure path, every temp file the invocation created (audio, backgrounds,
\* intermediate video, caption file, final video) has been removed.
C20_TempFilesRemoved ==
    rt_pc = "done" => rt_files = {}


----------------------------------------------------------------------------
\* Concurrent create_complete_video requests (api/routes/video.py 126-320).
\* The route is a coroutine: requests interleave at its awaits (the audio
\* download, each background download, the upload); the render between
\* them is one synchronous call, during which only the clock moves.

MaxRequests == 2     \* concurrent requests
MaxClock    == 1     \* the clock runs over seconds 0..MaxClock
MaxBgId     == 2     \* background ids 1..MaxBgId

Requests == 1..MaxRequests
BgIds    == 1..MaxBgId
BgIdLists == {<<a>> : a \in BgIds} \cup {<<a, b>> : a \in BgIds, b \in BgIds}

\* Temp paths: <<kind, background id, index, timestamp>>, 0 where the file
\* name has no such part.
\* video.py 128: audio_{%Y%m%d_%H%M%S}.wav
AudioPath(ts) == <<"audio", 0, 0, ts>>
\* video.py 177: bg_{bg_id}_{i}.jpg
BgPath(bg_id, i) == <<"bg", bg_id, i, 0>>
\* video.py 190: video_{%Y%m%d_%H%M%S}.mp4
VideoPath(ts) == <<"video", 0, 0, ts>>
\* media_utils.py 811: scene_{i}_{%Y%m%d_%H%M%S}.mp4
ScenePath(i, ts) == <<"scene", 0, i, ts>>
\* media_utils.py 845: concat_{%Y%m%d_%H%M%S}.txt
ConcatPath(ts) == <<"concat", 0, 0, ts>>

InFlight(r) == req_pc[r] \notin {"idle", "done", "failed"}

\* A write to, or removal of, path p by request r hits a file that another
\* in-flight request still needs.
Clobbers(r, ps) ==
    \E q \in Requests : q # r /\ InFlight(q) /\ ps \cap req_needs[q] # {}

\* video.py 195-210: create_multi_scene_video / create_video are plain
\* functions called without await, and they run ffprobe and ffmpeg with
\* subprocess.run (media_utils.py 328, 535, 785, 830, 877): while a request
\* is inside the call the event loop runs no other coroutine.
EventLoopHeld == \E q \in Requests : req_pc[q] = "render"

BgPaths(r) == {BgPath(req_bg_ids[r][i], i - 1) : i \in 1..Len(req_bg_ids[r])}

\* video.py 128-131: the path is named, then the download is awaited
StartAudioDownload(r) ==
    /\ ~EventLoopHeld
    /\ req_pc[r] = "idle"
    /\ req_pc' = [req_pc EXCEPT ![r] = "audio"]
    /\ req_paths' = [req_paths EXCEPT ![r] = @ \cup {AudioPath(now)}]
    /\ UNCHANGED <<now, req_bg_ids, req_bg_j, req_needs, files, clobbered>>
    /\ OnlyConc

\* video.py 132-138: the audio is written, or the download failed
FinishAudioDownload(r) ==
    /\ ~EventLoopHeld
    /\ req_pc[r] = "audio"
    /\ \E ok \in BOOLEAN :
          IF ok
          THEN LET p == CHOOSE x \in req_paths[r] : x[1] = "audio"
               IN  /\ files' = files \cup {p}
                   /\ clobbered' = (clobbered \/ Clobbers(r, {p}))
                   /\ req_needs' = [req_needs EXCEPT ![r] = @ \cup {p}]
                   /\ req_pc' = [req_pc EXCEPT ![r] = "backgrounds"]
          ELSE /\ req_pc' = [req_pc EXCEPT ![r] = "failed"]
               /\ UNCHANGED <<files, clobbered, req_needs>>
    /\ UNCHANGED <<now, req_bg_ids, req_bg_j, req_paths>>
    /\ OnlyConc

\* video.py 163-183: one background looked up, validated and downloaded
DownloadBackground(r) ==
    /\ ~EventLoopHeld
    /\ req_pc[r] = "backgrounds"
    /\ req_bg_j[r] <= Len(req_bg_ids[r])
    /\ \E valid \in BOOLEAN :
          IF valid
          THEN LET p == BgPath(req_bg_ids[r][req_bg_j[r]], req_bg_j[r] - 1)
               IN  /\ files' = files \cup {p}
                   /\ clobbered' = (clobbered \/ Clobbers(r, {p}))
                   /\ req_paths' = [req_paths EXCEPT ![r] = @ \cup {p}]
                   /\ req_needs' = [req_needs EXCEPT ![r] = @ \cup {p}]
          ELSE UNCHANGED <<files, clobbered, req_paths, req_needs>>
    /\ req_bg_j' = [req_bg_j EXCEPT ![r] = @ + 1]
    /\ UNCHANGED <<now, req_pc, req_bg_ids>>
    /\ OnlyConc

\* video.py 185-210 with media_utils.py 811 and 845: the request enters the
\* synchronous render.  The output video, the clips and the manifest are
\* named by the clock.
RenderVideo(r) ==
    /\ ~EventLoopHeld
    /\ req_pc[r] = "backgrounds"
    /\ req_bg_j[r] > Len(req_bg_ids[r])
    /\ LET bgs     == {p \in req_needs[r] : p[1] = "bg"}
           scratch == IF Cardinality(bgs) > 1
                      THEN {ScenePath(i, now) : i \in 0..(Cardinality(bgs) - 1)}
                               \cup {ConcatPath(now)}
                      ELSE {}
       IN  IF bgs = {}
           THEN \* video.py 185-186: HTTPException 404
                /\ req_pc' = [req_pc EXCEPT ![r] = "failed"]
                /\ UNCHANGED req_paths
           ELSE /\ req_pc' = [req_pc EXCEPT ![r] = "render"]
                /\ req_paths' = [req_paths EXCEPT
                                    ![r] = @ \cup scratch \cup {VideoPath(now)}]
    /\ UNCHANGED <<now, req_bg_ids, req_bg_j, req_needs, files, clobbered>>
    /\ OnlyConc

\* video.py 210-215: the render returns.  It has read the audio and the
\* backgrounds, written the output video, and removed its clips and
\* manifest (media_utils.py 896-912).
RenderReturns(r) ==
    /\ req_pc[r] = "render"
    /\ LET out     == {p \in req_paths[r] : p[1] = "video"}
           scratch == {p \in req_paths[r] : p[1] \in {"scene", "concat"}}
       IN  /\ req_needs' = [req_needs EXCEPT ![r] = out]
           /\ files' = (files \ scratch) \cup out
           /\ clobbered' = (clobbered \/ Clobbers(r, scratch \cup out))
    /\ req_pc' = [req_pc EXCEPT ![r] = "upload"]
    /\ UNCHANGED <<now, req_bg_ids, req_bg_j, req_paths>>
    /\ OnlyConc

\* video.py 292-320: the upload is awaited, then audio_path,
\* final_video_path and the background paths are removed
UploadAndCleanup(r) ==
    /\ ~EventLoopHeld
    /\ req_pc[r] = "upload"
    /\ LET mine == {p \in req_paths[r] : p[1] \in {"audio", "video", "bg"}}
       IN  /\ files' = files \ mine
           /\ clobbered' = (clobbered \/ Clobbers(r, mine))
    /\ req_needs' = [req_needs EXCEPT ![r] = {}]
    /\ req_pc' = [req_pc EXCEPT ![r] = "done"]
    /\ UNCHANGED <<now, req_bg_ids, req_bg_j, req_paths>>
    /\ OnlyConc

\* A second of wall-clock time passes.
Tick ==
    /\ now < MaxClock
    /\ now' = now + 1
    /\ UNCHANGED <<req_pc, req_bg_ids, req_bg_j, req_paths, req_needs,
                   files, clobbered>>
    /\ OnlyConc

InitConc ==
    /\ PlanIdle
    /\ CaptionIdle
    /\ ProbeIdle
    /\ RenderIdle
    /\ SubIdle
    /\ RouteIdle
    /\ now = 0
    /\ req_pc = [r \in Requests |-> "idle"]
    /\ req_bg_ids \in [Requests -> BgIdLists]
    /\ req_bg_j = [r \in Requests |-> 1]
    /\ req_paths = [r \in Requests |-> {}]
    /\ req_needs = [r \in Requests |-> {}]
    /\ files = {}
    /\ clobbered = FALSE

NextConc ==
    \/ \E r \in Requests : StartAudioDownload(r)
    \/ \E r \in Requests : FinishAudioDownload(r)
    \/ \E r \in Requests : DownloadBackground(r)
    \/ \E r \in Requests : RenderVideo(r)
    \/ \E r \in Requests : RenderReturns(r)
    \/ \E r \in Requests : UploadAndCleanup(r)
    \/ Tick

SpecConc == InitConc /\ [][NextConc]_vars

\* C9: two requests in flight at the same time use disjoint sets of
\* intermediate file paths, so neither overwrites or deletes a file the
\* other still needs.
C9_DistinctTempPaths ==
    /\ \A a \in Requests : \A b \in Requests :
           (a # b /\ InFlight(a) /\ InFlight(b))
               => req_paths[a] \cap req_paths[b] = {}
    /\ ~clobbered

\* C30: blocking renders are offloaded from the request loop: while one
\* request is inside a render, every other request that is waiting for its
\* next step can take it.
C30_OthersProgressDuringRender ==
    \A r \in Requests : \A q \in Requests :
        (r # q /\ req_pc[r] = "render" /\ InFlight(q))
            => ENABLED (\/ FinishAudioDownload(q)
                        \/ DownloadBackground(q)
                        \/ RenderVideo(q)
                        \/ RenderReturns(q)
                        \/ UploadAndCleanup(q))

====
